---- MODULE Spec2Model ----
(***************************************************************************)
(* webpack-dll-bundles-plugin: the plugin run (check, external DLL build,  *)
(* save), the metadata collector, the diff against the persisted bundle    *)
(* state and the rebuild decision, modelled from src/DllBundlesControl.ts, *)
(* src/DllBundlesPlugin.ts and src/utils.ts.                               *)
(*                                                                         *)
(* Conventions.  A version is a positive number, NoVersion (0) is the      *)
(* JavaScript `undefined` of an unset `version`; NoError is the unset      *)
(* `error`.  A JavaScript object used as a map (the bundle state) is a     *)
(* sequence of entries with distinct names, in key insertion order, which  *)
(* is the order Object.keys and JSON.stringify use.                        *)
(***************************************************************************)
EXTENDS Integers, Sequences, FiniteSets, TLC

\* ------------------------------------------------------------------ bounds
\* Largest number of package references declared over all bundles.
MaxPkgs == 2
\* Package versions found on disk range over 1..MaxVersion.
MaxVersion == 2
\* Number of plugin runs (compiler 'run' / 'watch-run' events) explored.
MaxRuns == 2

\* ---------------------------------------------------------------- universe
NoVersion == 0
NoError == "none"

\* Names of the configured bundles, in Object.keys order.
BundleNames == <<"a", "b">>
\* A bundle name that only an old state file can carry.
StaleBundle == "old"

\* Module locations that can be asked of require.resolve.
Paths == {"p", "q"}
\* The `name` field of the package.json that owns a location.
ManifestName(path) == path

\* A package of a bundle is a string or a {name, path} object
\* (DllBundleConfig.packages): str # "" is `typeof pkg === 'string'`.
StringRef(s) == [str |-> s, name |-> "", path |-> ""]
ObjectRef(n, p) == [str |-> "", name |-> n, path |-> p]
Refs == {StringRef("p"), StringRef("q"), ObjectRef("q", "p")}

\* What resolving a location finds: nothing resolvable, a package.json
\* lacking name or version, or a package.json with a version.
Outcomes ==
  {[kind |-> "unresolvable", version |-> NoVersion],
   [kind |-> "invalid", version |-> NoVersion]}
  \cup {[kind |-> "ok", version |-> v] : v \in 1..MaxVersion}

Range(s) == {s[i] : i \in 1..Len(s)}

RECURSIVE SeqsOfLen(_, _)
SeqsOfLen(S, n) ==
  IF n = 0 THEN {<<>>}
  ELSE {Append(s, x) : s \in SeqsOfLen(S, n - 1), x \in S}

SeqsUpTo(S, n) == UNION {SeqsOfLen(S, k) : k \in 0..n}

\* ----------------------------------------------- objects used as maps
Has(m, k) == \E i \in 1..Len(m) : m[i].name = k
Get(m, k) == m[CHOOSE i \in 1..Len(m) : m[i].name = k]
Del(m, k) == SelectSeq(m, LAMBDA e : e.name # k)
Put(m, k, b, v) ==
  IF Has(m, k)
  THEN [i \in 1..Len(m) |->
          IF m[i].name = k THEN [name |-> k, bundle |-> b, version |-> v]
          ELSE m[i]]
  ELSE Append(m, [name |-> k, bundle |-> b, version |-> v])

VARIABLES
  bundles,            \* this.bundles: <<[name, packages]>> in declaration order
  ignorePackageError, \* options.ignorePackageError
  disk,               \* location -> what its package.json resolution finds
  files,              \* the artifact files present in dllDir
  stateFile,          \* dll-bundles-state.json: [exists, content]
  requireCache,       \* node's module cache entry for the state file: [loaded, obj]
  pc,                 \* position of the plugin run
  runs,               \* runs started so far
  packages,           \* the PackageInfo list of the getMetadata in progress / last done
  pending,            \* indices of `packages` whose promise chain has not settled
  loadedState,        \* what getBundleSate returned to the last analyzeState
  analyzed,           \* AnalyzedState of the last analyzeState
  rebuild,            \* list the last checkBundles resolved with
  thrown,             \* error the last checkBundles rejected with
  logged,             \* what the last checkBundles wrote with console.error
  nextCalls,          \* arguments of the calls of this run's `next` so far
  log,                \* the completed steps of the runs so far
  given,              \* the options object the constructor was given
  plugin,             \* the plugin instance: [phase, context, dllDir]
  refPlugins,         \* the DllReferencePlugins apply() created
  userPlugins,        \* the plugins array of the user's webpack configuration
  handed              \* the configuration last handed to webpack()

vars == <<bundles, ignorePackageError, disk, files, stateFile, requireCache, pc,
          runs, packages, pending, loadedState, analyzed, rebuild, thrown, logged,
          nextCalls, log, given, plugin, refPlugins, userPlugins, handed>>

\* ------------------------------------------------------------- PackageInfo
\* constructor(bundle, pkg): a string pkg is both name and path.
PackageInfo(bundle, pkg) ==
  IF pkg.str # ""
  THEN [bundle |-> bundle, name |-> pkg.str, path |-> pkg.str,
        version |-> NoVersion, error |-> NoError]
  ELSE [bundle |-> bundle, name |-> pkg.name, path |-> pkg.path,
        version |-> NoVersion, error |-> NoError]

\* ---------------------------------------------------------- getPackageJson
\* require(getPackageJsonPath(uri)): rejects when the location does not
\* resolve or the package.json lacks name or version, else resolves with it.
getPackageJson(uri) ==
  CASE disk[uri].kind = "unresolvable" ->
         [ok |-> FALSE, err |-> "cannot_find_module", name |-> "", version |-> NoVersion]
    [] disk[uri].kind = "invalid" ->
         [ok |-> FALSE, err |-> "invalid_package_json", name |-> "", version |-> NoVersion]
    [] OTHER ->
         [ok |-> TRUE, err |-> NoError, name |-> ManifestName(uri),
          version |-> disk[uri].version]

\* The promise chain getMetadata hangs on one PackageInfo:
\* .then(set version, throw on a name mismatch).catch(set error).then(pkgInfo)
ResolveChain(pkgInfo) ==
  LET r == getPackageJson(pkgInfo.path) IN
  IF ~r.ok THEN [pkgInfo EXCEPT !.error = r.err]
  ELSE LET versioned == [pkgInfo EXCEPT !.version = r.version] IN
       IF pkgInfo.name # r.name
       THEN [versioned EXCEPT !.error = "name_mismatch"]
       ELSE versioned

\* The PackageInfo list getMetadata builds: bundles in order, the packages
\* of each bundle in order.
RECURSIVE FlattenBundles(_)
FlattenBundles(bs) ==
  IF bs = <<>> THEN <<>>
  ELSE [i \in 1..Len(Head(bs).packages) |->
          PackageInfo(Head(bs).name, Head(bs).packages[i])]
       \o FlattenBundles(Tail(bs))

\* A Promise.all over chains that lack the .catch(): the first chain that
\* fails settles the collector while its siblings are still awaited.
AwaitedAfter_FirstFailureSettles(awaited, i, d) ==
  IF d.error # NoError THEN {} ELSE awaited \ {i}

\* Promise.all over the chains: the indices still awaited once chain i has
\* settled with descriptor d.  The chain ends in .catch().then(), so it
\* fulfils whatever d holds and only leaves the awaited set.
AwaitedAfter(awaited, i, d) == awaited \ {i}

\* ------------------------------------------------------------ getBundleSate
\* require() of the state file when it exists: the object node cached for
\* that file on an earlier require, else the parsed content.  {} otherwise.
getBundleSate ==
  IF stateFile.exists
  THEN IF requireCache.loaded THEN requireCache.obj ELSE stateFile.content
  ELSE <<>>

\* ------------------------------------------------------------- analyzeState
\* A diff that files every package found in the state as current.
DiffStep_NoVersionCompare(acc, pkgInfo) ==
  LET deleted == [acc EXCEPT !.bundleState = Del(acc.bundleState, pkgInfo.name),
                             !.hist = Append(acc.hist, pkgInfo.name)]
  IN
  IF pkgInfo.error # NoError
  THEN [deleted EXCEPT !.error = Append(acc.error, pkgInfo)]
  ELSE IF Has(acc.bundleState, pkgInfo.name)
  THEN [deleted EXCEPT !.current = Append(acc.current, pkgInfo)]
  ELSE IF pkgInfo.name \notin Range(acc.hist)
       THEN [acc EXCEPT !.added = Append(acc.added, pkgInfo)]
       ELSE acc

\* A diff whose error branch leaves bundleState alone.
DiffStep_ErrorKeepsEntry(acc, pkgInfo) ==
  LET deleted == [acc EXCEPT !.bundleState = Del(acc.bundleState, pkgInfo.name),
                             !.hist = Append(acc.hist, pkgInfo.name)]
  IN
  IF pkgInfo.error # NoError
  THEN [acc EXCEPT !.error = Append(acc.error, pkgInfo)]
  ELSE IF Has(acc.bundleState, pkgInfo.name)
  THEN IF Get(acc.bundleState, pkgInfo.name).version = pkgInfo.version
       THEN [deleted EXCEPT !.current = Append(acc.current, pkgInfo)]
       ELSE [deleted EXCEPT !.changed = Append(acc.changed, pkgInfo)]
  ELSE IF pkgInfo.name \notin Range(acc.hist)
       THEN [acc EXCEPT !.added = Append(acc.added, pkgInfo)]
       ELSE acc

\* One turn of packages.forEach; acc carries bundleState, pkgCache.hist and
\* the result lists.
DiffStep(acc, pkgInfo) ==
  LET deleted == [acc EXCEPT !.bundleState = Del(acc.bundleState, pkgInfo.name),
                             !.hist = Append(acc.hist, pkgInfo.name)]
  IN
  IF pkgInfo.error # NoError
  THEN [deleted EXCEPT !.error = Append(acc.error, pkgInfo)]
  ELSE IF Has(acc.bundleState, pkgInfo.name)
  THEN IF Get(acc.bundleState, pkgInfo.name).version = pkgInfo.version
       THEN [deleted EXCEPT !.current = Append(acc.current, pkgInfo)]
       ELSE [deleted EXCEPT !.changed = Append(acc.changed, pkgInfo)]
  ELSE IF pkgInfo.name \notin Range(acc.hist)
       THEN [acc EXCEPT !.added = Append(acc.added, pkgInfo)]
       ELSE acc

RECURSIVE DiffLoop(_, _)
DiffLoop(acc, pkgs) ==
  IF pkgs = <<>> THEN acc
  ELSE DiffLoop(DiffStep(acc, Head(pkgs)), Tail(pkgs))

\* analyzeState's then-callback on the metadata pkgs and the object
\* getBundleSate returned: the AnalyzedState, plus bundleState as the
\* deletes left it.
analyzeState(pkgs, bundleState) ==
  LET acc == DiffLoop([bundleState |-> bundleState, hist |-> <<>>,
                       current |-> <<>>, changed |-> <<>>, added |-> <<>>,
                       error |-> <<>>], pkgs)
  IN [current |-> acc.current, changed |-> acc.changed, added |-> acc.added,
      removed |-> [i \in 1..Len(acc.bundleState) |->
                     PackageInfo(acc.bundleState[i].bundle,
                                 StringRef(acc.bundleState[i].name))],
      error |-> acc.error,
      bundleState |-> acc.bundleState]

EmptyAnalyzed ==
  [current |-> <<>>, changed |-> <<>>, added |-> <<>>, removed |-> <<>>,
   error |-> <<>>, bundleState |-> <<>>]

\* ------------------------------------------------------------ checkBundles
DllJs(name) == <<name, "dll.js">>
ManifestJson(name) == <<name, "manifest.json">>
AllFiles == UNION {{DllJs(BundleNames[i]), ManifestJson(BundleNames[i])} :
                   i \in 1..Len(BundleNames)}

\* A presence check that forgets the manifest.
bundleLooksValid_DllOnly(name) == DllJs(name) \notin files

\* bundleLooksValid(name): TRUE when one of the two files is missing.
bundleLooksValid(name) ==
  DllJs(name) \notin files \/ ManifestJson(name) \notin files

\* A push without the indexOf test.
PushIfNew_Always(names, bundle) == Append(names, bundle)

\* forEach( p => bundleNames.indexOf(p.bundle) === -1 && bundleNames.push(p.bundle) )
PushIfNew(names, bundle) ==
  IF bundle \in Range(names) THEN names ELSE Append(names, bundle)

RECURSIVE Aggregate(_, _)
Aggregate(names, ps) ==
  IF ps = <<>> THEN names
  ELSE Aggregate(PushIfNew(names, Head(ps).bundle), Tail(ps))

\* this.bundles.filter( bnd => bnd.name === bundleName )[0]
Undefined == [name |-> "undefined", packages |-> <<>>]
BundleNamed(bundleName) ==
  LET found == SelectSeq(bundles, LAMBDA bnd : bnd.name = bundleName) IN
  IF found = <<>> THEN Undefined ELSE found[1]

\* A JavaScript Error made from a message alone; `details` is what it says
\* about single packages.
NoThrown == [message |-> "", details |-> <<>>]
SomePackagesHaveErrors ==
  [message |-> "DllBundlesPlugin: Some packages have errors.", details |-> <<>>]

\* The test of the option inverted.
ChecksStrictly_Inverted(ignore) == ignore

\* if (!this.options.ignorePackageError) throw
ChecksStrictly(ignore) == ~ignore

\* checkBundles' then-callback on an AnalyzedState.
checkBundles(an) ==
  LET invalid == SelectSeq([i \in 1..Len(bundles) |-> bundles[i].name],
                           bundleLooksValid)
      errors == [i \in 1..Len(an.error) |-> an.error[i].error]
      names == Aggregate(invalid, an.added \o an.changed \o an.removed \o an.error)
  IN
  IF an.error # <<>> /\ ChecksStrictly(ignorePackageError)
  THEN [threw |-> TRUE, error |-> SomePackagesHaveErrors, logged |-> errors,
        list |-> <<>>]
  ELSE [threw |-> FALSE, error |-> NoThrown, logged |-> errors,
        list |-> [i \in 1..Len(names) |-> BundleNamed(names[i])]]

\* ---------------------------------------------------------- saveBundleState
\* A save without the filter.
Persistable_All(m) == TRUE

\* metadata.filter( m => !m.error )
Persistable(m) == m.error = NoError

RECURSIVE ReduceState(_, _)
ReduceState(state, pkgs) ==
  IF pkgs = <<>> THEN state
  ELSE ReduceState(Put(state, Head(pkgs).name, Head(pkgs).bundle, Head(pkgs).version),
                   Tail(pkgs))

\* The object saveBundleState writes for the metadata pkgs.
BundleStateOf(pkgs) == ReduceState(<<>>, SelectSeq(pkgs, Persistable))

\* ------------------------------------------------------ DllBundlesPlugin
\* A file-system path is the sequence of its segments, an absolute one
\* starting with the root; NoPath is the value of an option that was not
\* supplied (undefined).
NoPath == <<>>
AbsPath(segs) == <<"/">> \o segs
RelPath(segs) == segs
Cwd == AbsPath(<<"cwd">>)

\* Path.isAbsolute(p), Path.resolve(base, p) and Path.join(dir, file) of
\* strings.
PathIsAbsolute(p) == p # <<>> /\ p[1] = "/"
PathResolve(base, p) ==
  IF PathIsAbsolute(p) THEN p
  ELSE IF PathIsAbsolute(base) THEN base \o p
  ELSE Cwd \o base \o p
PathJoin(dir, file) == dir \o file

\* The values the option webpackConfig takes: the configuration object
\* itself, the path of a file that exports it, or a factory that returns it.
\* `settings` are the user's settings other than entry, output and plugins.
Forms == {"object", "path", "function"}
UserConfig(form, hasPlugins) ==
  [form |-> form, settings |-> {"devtool"}, hasPlugins |-> hasPlugins]

\* resolveConfig: a string is required, a function is called, an object is
\* returned as it is.
resolveConfig(config) ==
  IF config.form = "path" THEN [config EXCEPT !.form = "object"]
  ELSE IF config.form = "function" THEN [config EXCEPT !.form = "object"]
  ELSE config

\* Object.assign({}, webpackConfig, ...) copies the own enumerable
\* properties of its source: those of a configuration object, the index
\* characters of a string, nothing of a function.
OwnProperties(config) ==
  IF config.form = "object" THEN config
  ELSE IF config.form = "path"
  THEN [form |-> "object", settings |-> {"0"}, hasPlugins |-> FALSE]
  ELSE [form |-> "object", settings |-> {}, hasPlugins |-> FALSE]

\* newEntry of run: bundle name to the paths of its packages.
newEntry(bs) ==
  [k \in 1..Len(bs) |->
     [name |-> bs[k].name,
      paths |-> [j \in 1..Len(bs[k].packages) |->
                  IF bs[k].packages[j].str # "" THEN bs[k].packages[j].str
                  ELSE bs[k].packages[j].path]]]

NoConfig == [form |-> "object", entry |-> <<>>, output |-> NoPath, settings |-> {},
             plugins |-> <<>>]

\* The webpackConfig run builds and passes to runWebpack, given the user's
\* plugins array as it is now: the copy shares that array when the source has
\* one, and DllPlugin is pushed onto it.
runConfig(config, bs, dllDir, userArray) ==
  LET copy == OwnProperties(config)
      built == [form |-> "object",
                entry |-> newEntry(bs),
                output |-> dllDir,
                settings |-> copy.settings,
                plugins |-> IF copy.hasPlugins
                            THEN Append(userArray, "DllPlugin")
                            ELSE <<"DllPlugin">>]
  IN  [config |-> built,
       userPlugins |-> IF copy.hasPlugins THEN built.plugins ELSE userArray]

\* setOptions, called by the constructor.
NotConstructed == [phase |-> "new", context |-> NoPath, dllDir |-> NoPath,
                   error |-> ""]
setOptions(options) ==
  LET context == IF options.context # NoPath THEN Cwd ELSE options.context
  IN  IF context = NoPath
      THEN [phase |-> "failed", context |-> context, dllDir |-> options.dllDir,
            error |-> "TypeError"]
      ELSE IF ~PathIsAbsolute(context)
      THEN [phase |-> "failed", context |-> context, dllDir |-> options.dllDir,
            error |-> "Context must be an absolute path"]
      ELSE [phase |-> "constructed", context |-> context,
            dllDir |-> IF PathIsAbsolute(options.dllDir) THEN options.dllDir
                       ELSE PathResolve(context, options.dllDir),
            error |-> ""]

\* The DllReferencePlugins apply creates, one per bundle.
apply(self, bs) ==
  [k \in 1..Len(bs) |->
     [context |-> self.context,
      manifest |-> PathJoin(self.dllDir, ManifestJson(bs[k].name))]]

\* -------------------------------------------------------------------- Init
\* The configurations: every bundle of BundleNames with a list of package
\* references, at most MaxPkgs references in all.
Configs ==
  {<<[name |-> BundleNames[1], packages |-> pa],
     [name |-> BundleNames[2], packages |-> pb]>> :
     <<pa, pb>> \in {c \in SeqsUpTo(Refs, MaxPkgs) \X SeqsUpTo(Refs, MaxPkgs) :
                       Len(c[1]) + Len(c[2]) <= MaxPkgs}}

UsedPaths(bs) == {d.path : d \in Range(FlattenBundles(bs))}

\* What the locations resolve to; a location no reference uses stays
\* unresolvable.
Disks(bs) ==
  {d \in [Paths -> Outcomes] :
     \A path \in Paths \ UsedPaths(bs) : d[path].kind = "unresolvable"}

\* The state files an earlier process can have left: none, an empty one, or
\* one whose single entry records the oldest version of a package.
Names == {ManifestName(path) : path \in Paths}
StateEntries ==
  {[name |-> n, bundle |-> b, version |-> 1] :
     n \in Names, b \in Range(BundleNames) \cup {StaleBundle}}
StateFiles ==
  {[exists |-> FALSE, content |-> <<>>], [exists |-> TRUE, content |-> <<>>]}
  \cup {[exists |-> TRUE, content |-> <<e>>] : e \in StateEntries}

\* The artifact files an earlier build can have left: a fresh dllDir, a
\* complete one, or a complete one that lost the DLL of the first bundle or
\* the manifest of the last.
ArtifactDirs ==
  {{}, AllFiles, AllFiles \ {DllJs(BundleNames[1])},
   AllFiles \ {ManifestJson(BundleNames[Len(BundleNames)])}}

\* The options objects: context omitted, absolute or relative; dllDir
\* relative or absolute; webpackConfig in each form, with or without a
\* plugins array.  ExampleOptions follows the README's example.
Contexts == {NoPath, AbsPath(<<"ctx">>), RelPath(<<"rel">>)}
DllDirs == {RelPath(<<"dll">>), AbsPath(<<"out", "dll">>)}
Options ==
  {[context |-> c, dllDir |-> d, webpackConfig |-> UserConfig(f, h)] :
     c \in Contexts, d \in DllDirs, f \in Forms, h \in BOOLEAN}
ExampleOptions ==
  [context |-> AbsPath(<<"ctx">>), dllDir |-> RelPath(<<"dll">>),
   webpackConfig |-> UserConfig("object", TRUE)]

Init ==
  /\ bundles \in Configs
  /\ ignorePackageError \in BOOLEAN
  /\ disk \in Disks(bundles)
  /\ files \in ArtifactDirs
  /\ stateFile \in StateFiles
  /\ requireCache = [loaded |-> FALSE, obj |-> <<>>]
  /\ pc = "idle"
  /\ runs = 0
  /\ packages = <<>>
  /\ pending = {}
  /\ loadedState = <<>>
  /\ analyzed = EmptyAnalyzed
  /\ rebuild = <<>>
  /\ thrown = NoThrown
  /\ logged = <<>>
  /\ nextCalls = <<>>
  /\ log = <<>>
  /\ given = ExampleOptions
  /\ plugin = [setOptions(given) EXCEPT !.phase = "applied"]
  /\ refPlugins = apply(setOptions(given), bundles)
  /\ userPlugins = <<>>
  /\ handed = NoConfig

\* Before the constructor runs: the options object is any of Options, over
\* one configuration of two single-package bundles and a fresh dllDir.
PluginBundles ==
  <<[name |-> BundleNames[1], packages |-> <<StringRef("p")>>],
    [name |-> BundleNames[2], packages |-> <<StringRef("q")>>]>>

InitPlugin ==
  /\ bundles = PluginBundles
  /\ ignorePackageError = FALSE
  /\ disk \in Disks(bundles)
  /\ files = {}
  /\ stateFile = [exists |-> FALSE, content |-> <<>>]
  /\ requireCache = [loaded |-> FALSE, obj |-> <<>>]
  /\ pc = "idle"
  /\ runs = 0
  /\ packages = <<>>
  /\ pending = {}
  /\ loadedState = <<>>
  /\ analyzed = EmptyAnalyzed
  /\ rebuild = <<>>
  /\ thrown = NoThrown
  /\ logged = <<>>
  /\ nextCalls = <<>>
  /\ log = <<>>
  /\ given \in Options
  /\ plugin = NotConstructed
  /\ refPlugins = <<>>
  /\ userPlugins = <<>>
  /\ handed = NoConfig

\* ----------------------------------------------------------------- actions
\* .then( () => next() ).catch( err => next(err) ): the calls of next the
\* tail of run makes when the chain before it fulfilled; an exception thrown
\* by next() reaches the catch, which calls next again with it.
CallNext(throws) == IF throws THEN <<"", "thrown by next">> ELSE <<"">>

\* new DllBundlesPlugin(options).
Construct ==
  /\ plugin.phase = "new"
  /\ plugin' = setOptions(given)
  /\ UNCHANGED <<bundles, ignorePackageError, disk, files, stateFile, requireCache,
                 pc, runs, packages, pending, loadedState, analyzed, rebuild,
                 thrown, logged, nextCalls, log, given, refPlugins, userPlugins,
                 handed>>

\* plugin.apply(compiler): the reference plugins are created and the 'run'
\* and 'watch-run' hooks registered.
Apply ==
  /\ plugin.phase = "constructed"
  /\ plugin' = [plugin EXCEPT !.phase = "applied"]
  /\ refPlugins' = apply(plugin, bundles)
  /\ UNCHANGED <<bundles, ignorePackageError, disk, files, stateFile, requireCache,
                 pc, runs, packages, pending, loadedState, analyzed, rebuild,
                 thrown, logged, nextCalls, log, given, userPlugins, handed>>

Event(ev, list) ==
  [ev |-> ev, names |-> [i \in 1..Len(list) |-> list[i].name]]

\* The compiler's 'run' or 'watch-run' event: run(next) calls checkBundles,
\* analyzeState, getMetadata, which launches one chain per package.
Run ==
  /\ plugin.phase = "applied"
  /\ pc = "idle"
  /\ runs < MaxRuns
  /\ runs' = runs + 1
  /\ pc' = "check_meta"
  /\ packages' = FlattenBundles(bundles)
  /\ pending' = 1..Len(FlattenBundles(bundles))
  /\ nextCalls' = <<>>
  /\ UNCHANGED <<bundles, ignorePackageError, disk, files, stateFile, requireCache,
                 loadedState, analyzed, rebuild, thrown, logged, log,
                 given, plugin, refPlugins, userPlugins, handed>>

\* One chain of getMetadata settles.
ResolvePackage(i) ==
  /\ pc \in {"check_meta", "save_meta"}
  /\ i \in pending
  /\ packages' = [packages EXCEPT ![i] = ResolveChain(packages[i])]
  /\ pending' = AwaitedAfter(pending, i, ResolveChain(packages[i]))
  /\ UNCHANGED <<bundles, ignorePackageError, disk, files, stateFile, requireCache,
                 pc, runs, loadedState, analyzed, rebuild, thrown, logged, nextCalls, log,
                 given, plugin, refPlugins, userPlugins, handed>>

\* Promise.all of the check's getMetadata fulfils: analyzeState's callback,
\* checkBundles' callback and the first callback of run follow.
CheckDone ==
  /\ pc = "check_meta"
  /\ pending = {}
  /\ LET an == analyzeState(packages, getBundleSate)
         cb == checkBundles(an)
     IN
     /\ requireCache' = IF stateFile.exists
                        THEN [loaded |-> TRUE, obj |-> an.bundleState]
                        ELSE requireCache
     /\ loadedState' = getBundleSate
     /\ analyzed' = an
     /\ logged' = cb.logged
     /\ thrown' = cb.error
     /\ rebuild' = cb.list
     /\ IF cb.threw
        THEN /\ pc' = "idle"
             /\ nextCalls' = Append(nextCalls, cb.error.message)
             /\ log' = Append(log, Event("check_err", <<>>))
             /\ UNCHANGED <<userPlugins, handed>>
        ELSE IF cb.list = <<>>
        THEN /\ pc' = "idle"
             /\ \E throws \in BOOLEAN : nextCalls' = nextCalls \o CallNext(throws)
             /\ log' = Append(log, Event("check_ok", <<>>))
             /\ UNCHANGED <<userPlugins, handed>>
        ELSE LET rc == runConfig(given.webpackConfig, bundles, plugin.dllDir,
                                 userPlugins)
             IN  /\ pc' = "build"
                 /\ nextCalls' = nextCalls
                 /\ log' = Append(log, Event("check_ok", cb.list))
                 /\ userPlugins' = rc.userPlugins
                 /\ handed' = resolveConfig(rc.config)
  /\ UNCHANGED <<bundles, ignorePackageError, disk, files, stateFile, runs,
                 packages, pending, given, plugin, refPlugins>>

\* runWebpack(webpackConfig).done fulfils: the build wrote the DLL and the
\* manifest of every entry; saveBundleState starts its getMetadata.
BuildSucceeds ==
  /\ pc = "build"
  /\ files' = AllFiles
  /\ pc' = "save_meta"
  /\ packages' = FlattenBundles(bundles)
  /\ pending' = 1..Len(FlattenBundles(bundles))
  /\ log' = Append(log, Event("build_ok", <<>>))
  /\ UNCHANGED <<bundles, ignorePackageError, disk, stateFile, requireCache, runs,
                 loadedState, analyzed, rebuild, thrown, logged, nextCalls,
                 given, plugin, refPlugins, userPlugins, handed>>

\* runWebpack(webpackConfig).done rejects: .catch( err => next(err) ).
BuildFails ==
  /\ pc = "build"
  /\ pc' = "idle"
  /\ nextCalls' = Append(nextCalls, "webpack failed")
  /\ log' = Append(log, Event("build_fail", <<>>))
  /\ UNCHANGED <<bundles, ignorePackageError, disk, files, stateFile, requireCache,
                 runs, packages, pending, loadedState, analyzed, rebuild, thrown, logged,
                 given, plugin, refPlugins, userPlugins, handed>>

\* Promise.all of saveBundleState's getMetadata fulfils: the state file is
\* written, then next().
SaveDone ==
  /\ pc = "save_meta"
  /\ pending = {}
  /\ stateFile' = [exists |-> TRUE, content |-> BundleStateOf(packages)]
  /\ pc' = "idle"
  /\ \E throws \in BOOLEAN : nextCalls' = nextCalls \o CallNext(throws)
  /\ log' = Append(log, Event("save", <<>>))
  /\ UNCHANGED <<bundles, ignorePackageError, disk, files, requireCache, runs,
                 packages, pending, loadedState, analyzed, rebuild, thrown, logged,
                 given, plugin, refPlugins, userPlugins, handed>>

Next ==
  \/ Run
  \/ \E i \in 1..MaxPkgs : ResolvePackage(i)
  \/ CheckDone
  \/ BuildSucceeds
  \/ BuildFails
  \/ SaveDone

Spec == Init /\ [][Next]_vars

\* The plugin from its construction on.
NextPlugin ==
  \/ Construct
  \/ Apply
  \/ Run
  \/ \E i \in 1..MaxPkgs : ResolvePackage(i)
  \/ CheckDone
  \/ BuildSucceeds
  \/ BuildFails
  \/ SaveDone

SpecPlugin == InitPlugin /\ [][NextPlugin]_vars

\* ------------------------------------------------------ reading the state
Configured(name) == \E k \in 1..Len(bundles) : bundles[k].name = name
DeclIndex(name) == CHOOSE k \in 1..Len(bundles) : bundles[k].name = name
LastEv == IF log = <<>> THEN "" ELSE log[Len(log)].ev
\* checkBundles has just settled and nothing has happened since: disk, files
\* and `packages` are those the check worked on.
JustChecked == LastEv \in {"check_ok", "check_err"} /\ pc \in {"idle", "build"}
\* saveBundleState has just written the state file from `packages`.
JustSaved == LastEv = "save" /\ pc = "idle"
Errored(d) == d.error # NoError
\* The records of the diff that flag a bundle, in the order checkBundles
\* walks them.
Flagging == analyzed.added \o analyzed.changed \o analyzed.removed \o analyzed.error
Classified == analyzed.added \o analyzed.current \o analyzed.changed
MissingArtifact(name) == DllJs(name) \notin files \/ ManifestJson(name) \notin files

\* ------------------------------------------------------------------ claims

\* C1 (as claimed): when every package resolves, a check followed by a
\* successful build, a save and a second check with all artifacts present
\* ends with the second check returning an empty rebuild list, whatever the
\* state file was at the start.
C1_CheckSaveCheckIsEmpty ==
  (/\ Len(log) >= 4
   /\ log[Len(log) - 3].ev = "check_ok"
   /\ log[Len(log) - 2].ev = "build_ok"
   /\ log[Len(log) - 1].ev = "save"
   /\ JustChecked
   /\ files = AllFiles
   /\ \A i \in 1..Len(packages) : ~Errored(packages[i]))
  => (LastEv = "check_ok" /\ log[Len(log)].names = <<>>)

\* C2 (as claimed): a name declared by two or more references that all
\* resolve has exactly one entry over added, current and changed.
C2_DuplicateNameCountedOnce ==
  JustChecked =>
    \A n \in Names :
      (/\ Cardinality({i \in 1..Len(packages) : packages[i].name = n}) >= 2
       /\ \A i \in 1..Len(packages) : packages[i].name = n => ~Errored(packages[i]))
      => Cardinality({i \in 1..Len(Classified) : Classified[i].name = n}) = 1

\* C3 (as claimed): the configured bundles of the returned list appear in
\* declaration order, none twice.
C3_DeclarationOrder ==
  JustChecked =>
    \A i, j \in 1..Len(rebuild) :
      (i < j /\ Configured(rebuild[i].name) /\ Configured(rebuild[j].name))
      => DeclIndex(rebuild[i].name) < DeclIndex(rebuild[j].name)

\* C3 (amended): no configured bundle is returned twice; the bundles with a
\* missing artifact come first, in declaration order, and the other flagged
\* bundles follow in the order in which the records of added, changed,
\* removed and error first name them.
FirstFlag(name) == CHOOSE k \in 1..Len(Flagging) :
                     /\ Flagging[k].bundle = name
                     /\ \A m \in 1..(k - 1) : Flagging[m].bundle # name
C3_ArtifactsFirstThenDiffOrder ==
  JustChecked =>
    \A i, j \in 1..Len(rebuild) :
      (i < j /\ Configured(rebuild[i].name) /\ Configured(rebuild[j].name))
      => /\ rebuild[i].name # rebuild[j].name
         /\ MissingArtifact(rebuild[j].name)
              => /\ MissingArtifact(rebuild[i].name)
                 /\ DeclIndex(rebuild[i].name) < DeclIndex(rebuild[j].name)
         /\ (~MissingArtifact(rebuild[i].name) /\ ~MissingArtifact(rebuild[j].name))
              => FirstFlag(rebuild[i].name) < FirstFlag(rebuild[j].name)

\* C3 witness: the later-declared bundle, flagged by a missing artifact
\* alone, is returned before the earlier-declared one, flagged by a changed
\* package alone.
C3_Witness ==
  /\ JustChecked
  /\ Len(rebuild) = 2
  /\ rebuild[1].name = BundleNames[2]
  /\ rebuild[2].name = BundleNames[1]
  /\ ~MissingArtifact(BundleNames[1])
  /\ \A k \in 1..Len(Flagging) : Flagging[k].bundle = BundleNames[1]
  /\ analyzed.changed # <<>>

\* C4 (as claimed): every element of the returned list is a configured
\* bundle definition.
C4_OnlyConfiguredBundles ==
  JustChecked => \A i \in 1..Len(rebuild) : rebuild[i] \in Range(bundles)

\* C5: when checkBundles succeeds, a configured bundle is returned exactly
\* when one of its two artifact files is missing or a record of changed,
\* added, removed or error carries its name.
C5_FlaggedIff ==
  (JustChecked /\ LastEv = "check_ok") =>
    \A k \in 1..Len(bundles) :
      (bundles[k] \in Range(rebuild))
      <=> \/ DllJs(bundles[k].name) \notin files
          \/ ManifestJson(bundles[k].name) \notin files
          \/ \E r \in Range(analyzed.changed) \cup Range(analyzed.added)
                      \cup Range(analyzed.removed) \cup Range(analyzed.error) :
               r.bundle = bundles[k].name

\* C5 witness: one bundle returned for nothing but a missing manifest next
\* to a bundle with both files and a current package, which is not returned.
C5_Witness ==
  /\ JustChecked
  /\ LastEv = "check_ok"
  /\ Flagging = <<>>
  /\ analyzed.current # <<>>
  /\ files = AllFiles \ {ManifestJson(BundleNames[2])}
  /\ rebuild = <<bundles[2]>>

\* C6 (as claimed): in strict mode a check with an errored package fails,
\* returns no list, and its error enumerates name and reason of every
\* errored package; the run goes on to neither build nor save.
ErroredPackages == SelectSeq(packages, Errored)
NoBuildAfterFailedCheck ==
  \A i \in 1..(Len(log) - 1) :
    log[i].ev = "check_err" => log[i + 1].ev \notin {"build_ok", "build_fail", "save"}
C6_ErrorEnumeratesPackages ==
  (JustChecked /\ ~ignorePackageError /\ ErroredPackages # <<>>)
  => /\ LastEv = "check_err"
     /\ rebuild = <<>>
     /\ thrown.details = [i \in 1..Len(ErroredPackages) |->
                            [name |-> ErroredPackages[i].name,
                             reason |-> ErroredPackages[i].error]]
     /\ pc = "idle"
     /\ NoBuildAfterFailedCheck

\* C6 (amended): in strict mode a check with an errored package logs the
\* reason of every errored package and fails with the one fixed error
\* 'Some packages have errors', which names no package and no reason; it
\* returns no list, next receives that error, and the run goes on to
\* neither build nor save.
C6_StrictFailsWithFixedError ==
  /\ NoBuildAfterFailedCheck
  /\ (JustChecked /\ ~ignorePackageError /\ ErroredPackages # <<>>)
     => /\ LastEv = "check_err"
        /\ rebuild = <<>>
        /\ thrown.message = "DllBundlesPlugin: Some packages have errors."
        /\ thrown.details = <<>>
        /\ logged = [i \in 1..Len(ErroredPackages) |-> ErroredPackages[i].error]
        /\ pc = "idle"
        /\ nextCalls[Len(nextCalls)] = thrown.message

\* C6 witness: a strict check over two errored packages has failed.
C6_Witness ==
  /\ JustChecked
  /\ LastEv = "check_err"
  /\ ~ignorePackageError
  /\ Len(ErroredPackages) = 2
  /\ pc = "idle"

\* C7: the state saveBundleState writes holds only entries of packages
\* that resolved, and in permissive mode every check, in any run, puts a
\* package that fails to resolve into error and its bundle into the
\* returned list.
C7_ErroredNeverPersisted ==
  /\ JustSaved =>
       /\ \A e \in Range(stateFile.content) :
            \E i \in 1..Len(packages) :
              /\ ~Errored(packages[i])
              /\ packages[i].name = e.name
              /\ packages[i].bundle = e.bundle
              /\ packages[i].version = e.version
       /\ \A i \in 1..Len(packages) :
            (\A j \in 1..Len(packages) :
               packages[j].name = packages[i].name => Errored(packages[j]))
            => ~Has(stateFile.content, packages[i].name)
  /\ (JustChecked /\ ignorePackageError) =>
       \A i \in 1..Len(packages) :
         Errored(packages[i])
         => /\ LastEv = "check_ok"
            /\ packages[i] \in Range(analyzed.error)
            /\ \E j \in 1..Len(rebuild) : rebuild[j].name = packages[i].bundle

\* C7 witness: after a full cycle whose save left the errored package out,
\* the next permissive check has it in error again and returns its bundle.
C7_Witness ==
  /\ Len(log) >= 4
  /\ log[Len(log) - 1].ev = "save"
  /\ JustChecked
  /\ LastEv = "check_ok"
  /\ ignorePackageError
  /\ \E i \in 1..Len(packages) :
       /\ Errored(packages[i])
       /\ ~Has(stateFile.content, packages[i].name)
       /\ \E j \in 1..Len(rebuild) : rebuild[j].name = packages[i].bundle
  /\ stateFile.content # <<>>

\* C8 (as claimed): every descriptor whose chain has settled has exactly
\* one of version and error set.
C8_VersionXorError ==
  \A i \in (1..Len(packages)) \ pending :
    (packages[i].version # NoVersion) # (packages[i].error # NoError)

\* C9: getMetadata joins on every chain.  While it runs, the list has one
\* descriptor per declared reference in declaration order, an awaited chain
\* has touched nothing and a settled one has set version or error; whoever
\* consumes the list does so with no chain awaited and every descriptor
\* settled, failed siblings included.
RECURSIVE Offset(_)
Offset(k) == IF k = 1 THEN 0 ELSE Offset(k - 1) + Len(bundles[k - 1].packages)
DeclaredName(ref) == IF ref.str # "" THEN ref.str ELSE ref.name
DeclaredPath(ref) == IF ref.str # "" THEN ref.str ELSE ref.path
Settled(d) == d.version # NoVersion \/ d.error # NoError
OnePerReferenceInOrder ==
  /\ Len(packages) = Offset(Len(bundles) + 1)
  /\ \A k \in 1..Len(bundles) : \A j \in 1..Len(bundles[k].packages) :
       /\ packages[Offset(k) + j].bundle = bundles[k].name
       /\ packages[Offset(k) + j].name = DeclaredName(bundles[k].packages[j])
       /\ packages[Offset(k) + j].path = DeclaredPath(bundles[k].packages[j])
C9_JoinAll ==
  runs > 0 =>
    /\ OnePerReferenceInOrder
    /\ \A i \in 1..Len(packages) : Settled(packages[i]) <=> i \notin pending
    /\ pc \notin {"check_meta", "save_meta"} => pending = {}

\* C9 witness: the second chain failed before the first one settled, and
\* the collector is still waiting for the first.
C9_Witness ==
  /\ pc = "check_meta"
  /\ Len(packages) = 2
  /\ pending = {1}
  /\ Errored(packages[2])

\* C10 (as claimed): a failed build is followed by no save, and the check
\* of the next run flags the same set of bundles as the check before the
\* failed build.
C10_SameFlagsAfterFailedBuild ==
  /\ \A i \in 1..(Len(log) - 1) : log[i].ev = "build_fail" => log[i + 1].ev # "save"
  /\ (/\ Len(log) >= 3
      /\ log[Len(log) - 2].ev = "check_ok"
      /\ log[Len(log) - 1].ev = "build_fail"
      /\ JustChecked)
     => /\ LastEv = "check_ok"
        /\ Range(log[Len(log)].names) = Range(log[Len(log) - 2].names)

\* C13: a descriptor that resolved and is the first with its name is
\* in added iff the state the check loaded lacks its name, in current iff
\* the state has the name with its version, in changed iff the state has the
\* name with another version; and a check that finds no state file loads an
\* empty state and has current, changed and removed empty.
FirstOfName(j) == \A k \in 1..(j - 1) : packages[k].name # packages[j].name
Carried(n) == \E i \in 1..Len(packages) : packages[i].name = n
C15_AddedAfterErroredNamesake ==
  JustChecked =>
    \A i, j \in 1..Len(packages) :
      (/\ i < j
       /\ Errored(packages[i])
       /\ ~Errored(packages[j])
       /\ packages[i].name = packages[j].name
       /\ \A k \in 1..(j - 1) :
            packages[k].name = packages[j].name => Errored(packages[k])
       /\ \A e \in Range(loadedState) : e.name # packages[j].name)
      => packages[j] \in Range(analyzed.added)

\* C16 (as claimed): two checks in a row on one instance, with no save
\* between them and nothing changed on disk, end alike and return the same
\* list.
C16_ConsecutiveChecksAgree ==
  (/\ Len(log) >= 2
   /\ log[Len(log) - 1].ev \in {"check_ok", "check_err"}
   /\ JustChecked)
  => log[Len(log)] = log[Len(log) - 1]

\* C17 (as claimed): every check diffs against the content the state file
\* has at that moment, the empty state when there is no file.
C17_LoadsWhatTheFileHolds ==
  JustChecked =>
    loadedState = IF stateFile.exists THEN stateFile.content ELSE <<>>

\* C20 (as claimed): a package the state file records under one configured
\* bundle and the configuration declares under another, at the recorded
\* version, has both bundles returned when all artifacts are present.
C20_MovedPackageFlagsBothBundles ==
  (JustChecked /\ LastEv = "check_ok" /\ files = AllFiles
   /\ stateFile.exists /\ loadedState = stateFile.content)
  => \A i \in 1..Len(packages) : \A e \in Range(stateFile.content) :
       (/\ ~Errored(packages[i])
        /\ e.name = packages[i].name
        /\ e.version = packages[i].version
        /\ e.bundle # packages[i].bundle
        /\ Configured(e.bundle))
       => {e.bundle, packages[i].bundle} \subseteq Range(log[Len(log)].names)

\* ------------------------------------------------------------ DllBundlesPlugin
DllPluginsIn(config) ==
  Cardinality({i \in 1..Len(config.plugins) : config.plugins[i] = "DllPlugin"})

\* C11 (as claimed): once the constructor has run, an omitted context has
\* been replaced by process.cwd() and construction succeeded, and a supplied
\* absolute context is the plugin's context, the context of every
\* DllReferencePlugin and the base a relative dllDir was resolved against.
C11_ContextDefaultsOnlyWhenOmitted ==
  plugin.phase # "new" =>
    /\ given.context = NoPath =>
         plugin.phase \in {"constructed", "applied"} /\ plugin.context = Cwd
    /\ PathIsAbsolute(given.context) =>
         /\ plugin.phase \in {"constructed", "applied"}
         /\ plugin.context = given.context
         /\ \A k \in 1..Len(refPlugins) : refPlugins[k].context = given.context
         /\ ~PathIsAbsolute(given.dllDir) =>
              plugin.dllDir = PathResolve(given.context, given.dllDir)

\* C12 (as claimed): whatever the form of webpackConfig, the configuration
\* handed to webpack for a DLL build is the user's resolved configuration
\* with entry replaced by the bundle-name to package-paths mapping, output
\* set to dllDir and the DllPlugin added, the user's other settings kept.
C12_HandedIsUserConfigOverridden ==
  handed # NoConfig =>
    /\ handed.entry = newEntry(bundles)
    /\ handed.output = plugin.dllDir
    /\ DllPluginsIn(handed) >= 1
    /\ handed.settings = resolveConfig(given.webpackConfig).settings

\* C18 (as claimed): when a run has ended, its next has been called exactly
\* once: without an error after a check that returned the empty list or
\* after a save, with the error after a failed check or a failed build.
C18_NextCalledExactlyOnce ==
  (runs > 0 /\ pc = "idle") =>
    /\ Len(nextCalls) = 1
    /\ LastEv \in {"check_ok", "save"} => nextCalls[1] = ""
    /\ LastEv = "check_err" => nextCalls[1] = thrown.message
    /\ LastEv = "build_fail" => nextCalls[1] = "webpack failed"

\* C19 (as claimed): whatever number of rebuilds has happened, the plugins
\* array of the user's configuration object is as the user wrote it, and
\* the configuration handed to webpack holds exactly one DllPlugin.
C19_RebuildsLeaveUserConfigAlone ==
  /\ userPlugins = <<>>
  /\ handed # NoConfig => DllPluginsIn(handed) = 1

====
